---- MODULE Spec2Model ----
(***************************************************************************)
(* Verification model of the outbound queueing statistics of the zenoh     *)
(* transport (io/zenoh-transport/src/common/qstats.rs), of the queue       *)
(* defaults (commons/zenoh-config/src/defaults.rs) and of the parameter    *)
(* string codec (commons/zenoh-collections/src/parameters.rs).             *)
(*                                                                         *)
(* f64 values are modelled as exact rationals [num, den]; den = 0 encodes  *)
(* the two IEEE results of a division by zero (0/0 = NaN, x/0 = +inf).     *)
(* Rounding of the f64 operations is not modelled.                         *)
(***************************************************************************)
EXTENDS Integers, Sequences, FiniteSets, TLC

\* ------------------------------------------------------------------ bounds
\* largest lane capacity configured
MaxCap == 2
\* admission attempts, over all lanes
MaxTried == 3
\* depth samples, over all lanes
MaxHist == 2
\* last reading of the clock
MaxTime == 1
\* longest parameter string
MaxLen == 4

\* ------------------------------------------------------- program constants
\* const ALPHA: f64 = 0.1, as the fraction ALPHA_NUM / ALPHA_DEN
ALPHA_NUM == 1
ALPHA_DEN == 10
QueueSizeConf_MIN == 1
QueueSizeConf_MAX == 16
wait_before_drop == 1000
wait_before_close == 5000000

LIST_SEPARATOR == ";"
FIELD_SEPARATOR == "="

\* two of the eight priority classes, highest first; a lane is the index of
\* its class
Classes == <<"control", "data">>
Lanes == 1..Len(Classes)
Producers == {"p1", "p2"}
Workers == {"w1", "w2"}

VARIABLES capacity, cc, lanes, nextSn, stats, now, ppc, plane, wscan, reported, par

vars == <<capacity, cc, lanes, nextSn, stats, now, ppc, plane, wscan, reported, par>>

None == [some |-> FALSE]
Some(v) == [some |-> TRUE, v |-> v]

Min(a, b) == IF a < b THEN a ELSE b

\* ------------------------------------------------------------ f64 values
RECURSIVE Gcd(_, _)
Gcd(a, b) == IF b = 0 THEN a ELSE Gcd(b, a % b)

Reduce(n, d) == LET g == Gcd(n, d) IN [num |-> n \div g, den |-> d \div g]

\* `x as f64` of a usize
F(n) == [num |-> n, den |-> 1]

NaN == [num |-> 0, den |-> 0]
Inf == [num |-> 1, den |-> 0]

\* the f64 division a as f64 / b as f64 of two usize values
F64Div(a, b) == IF b = 0 THEN (IF a = 0 THEN NaN ELSE Inf) ELSE Reduce(a, b)

\* ------------------------------------------------------------ QueueStats
QueueStats_new ==
    [queue_counter |-> 0, timemap |-> {}, qsize |-> <<>>,
     dropped |-> 0, tried |-> 0, queueing_delay |-> <<>>]

record_qsize(s) == [s EXCEPT !.qsize = Append(@, s.queue_counter)]

push_q_delay(s, delay) == [s EXCEPT !.queueing_delay = Append(@, delay)]

\* HashMap::insert: the entry of sn is replaced
push_time(s, sn, time) ==
    [s EXCEPT !.timemap = {e \in @ : e[1] # sn} \cup {<<sn, time>>}]

\* faulty variant: the depth counter is raised twice for one message
inc_q_cnt_twice(s) == [s EXCEPT !.queue_counter = @ + 2]
inc_q_cnt(s) == [s EXCEPT !.queue_counter = @ + 1]

\* called for a resident message only, so the counter is positive
dec_q_cnt(s) == [s EXCEPT !.queue_counter = @ - 1]

inc_dropped(s) == [s EXCEPT !.dropped = @ + 1]

\* faulty variant: the attempt is not counted
inc_tried_lost(s) == s
inc_tried(s) == [s EXCEPT !.tried = @ + 1]

\* faulty variant: the two weights exchanged
EmaStep_swapped(state, value) ==
    Reduce((ALPHA_DEN - ALPHA_NUM) * value * state.den + ALPHA_NUM * state.num,
           ALPHA_DEN * state.den)
\* the closure of the fold: ALPHA * value + (1.0 - ALPHA) * state
EmaStep(state, value) ==
    Reduce(ALPHA_NUM * value * state.den + (ALPHA_DEN - ALPHA_NUM) * state.num,
           ALPHA_DEN * state.den)

\* qsize.iter().map(..).fold(state, ..): every element, the first included
RECURSIVE EmaFold(_, _)
EmaFold(state, seq) ==
    IF seq = <<>> THEN state
    ELSE EmaFold(EmaStep(state, Head(seq)), Tail(seq))

report(s) ==
    IF s.qsize = <<>>
    THEN [avg_qsize |-> F(0), droprate |-> F(0), avg_qdelay |-> F(0)]
    ELSE [avg_qsize |-> EmaFold(F(s.qsize[1]), s.qsize),
          droprate |-> F64Div(s.dropped, s.tried),
          avg_qdelay |-> F(0)]

\* ------------------------------------------------------------ Parameters
\* strings are sequences of characters
Chars == {"a", "b", LIST_SEPARATOR, FIELD_SEPARATOR}

\* index of the first c in s, 0 when there is none (str::find)
RECURSIVE FindFrom(_, _, _)
FindFrom(s, c, i) ==
    IF i > Len(s) THEN 0
    ELSE IF s[i] = c THEN i ELSE FindFrom(s, c, i + 1)

split_once(s, c) ==
    LET index == FindFrom(s, c, 1) IN
    IF index = 0 THEN <<s, <<>>>>
    ELSE <<SubSeq(s, 1, index - 1), SubSeq(s, index + 1, Len(s))>>

\* str::split(c)
RECURSIVE Split(_, _)
Split(s, c) ==
    LET index == FindFrom(s, c, 1) IN
    IF index = 0 THEN <<s>>
    ELSE <<SubSeq(s, 1, index - 1)>> \o Split(SubSeq(s, index + 1, Len(s)), c)

RECURSIVE MapSplitOnce(_)
MapSplitOnce(ps) ==
    IF ps = <<>> THEN <<>>
    ELSE <<split_once(Head(ps), FIELD_SEPARATOR)>> \o MapSplitOnce(Tail(ps))

NonEmpty(p) == p # <<>>

iter(s) == MapSplitOnce(SelectSeq(Split(s, LIST_SEPARATOR), NonEmpty))

HasKey(x) == x[1] # <<>>

RECURSIVE ConcatFrom(_, _)
ConcatFrom(kvs, first) ==
    IF kvs = <<>> THEN <<>>
    ELSE LET k == Head(kvs)[1]
             v == Head(kvs)[2]
         IN (IF first THEN <<>> ELSE <<LIST_SEPARATOR>>)
            \o k
            \o (IF v # <<>> THEN <<FIELD_SEPARATOR>> \o v ELSE <<>>)
            \o ConcatFrom(Tail(kvs), FALSE)

concat_into(kvs) == ConcatFrom(SelectSeq(kvs, HasKey), TRUE)

concat(kvs) == concat_into(kvs)

\* position of the first pair of kvs whose key is k, 0 when there is none
RECURSIVE FindKey(_, _, _)
FindKey(kvs, k, i) ==
    IF i > Len(kvs) THEN 0
    ELSE IF kvs[i][1] = k THEN i ELSE FindKey(kvs, k, i + 1)

\* iter.find(..) advances iter past the first match (to its end when there is
\* none); the filter then runs over what is left of iter
remove(kvs, k) ==
    LET at == FindKey(kvs, k, 1)
        item == IF at = 0 THEN None ELSE Some(kvs[at][2])
        left == IF at = 0 THEN <<>> ELSE SubSeq(kvs, at + 1, Len(kvs))
        KeyDiffers(x) == x[1] # k
    IN [str |-> concat(SelectSeq(left, KeyDiffers)), item |-> item]

\* ------------------------------------------------- configuration, Init
\* per-class capacities, each within QueueSizeConf::MIN..=QueueSizeConf::MAX
Capacities == QueueSizeConf_MIN..Min(QueueSizeConf_MAX, MaxCap)

\* the congestion policy variants; a wait of 0 never suspends the producer
Policies ==
    {[kind |-> "Drop", wait |-> 0],
     [kind |-> "Drop", wait |-> wait_before_drop],
     [kind |-> "Block", wait |-> wait_before_close]}

\* impl Default for QueueSizeConf, the entries of the modelled classes
QueueSizeConf_default == [control |-> 1, data |-> 4]

ParIdle == [s |-> <<>>, k |-> <<>>, done |-> FALSE, ret |-> None]

Init ==
    /\ capacity \in [Lanes -> Capacities]
    /\ cc \in Policies
    /\ lanes = [l \in Lanes |-> <<>>]
    /\ nextSn = [l \in Lanes |-> 0]
    /\ stats = [l \in Lanes |-> QueueStats_new]
    /\ now = 0
    /\ ppc = [p \in Producers |-> "idle"]
    /\ plane = [p \in Producers |-> 0]
    /\ wscan = [w \in Workers |-> 1]
    /\ reported = None
    /\ par = ParIdle

\* the model stops after MaxTried admission attempts and MaxHist depth samples
RECURSIVE SumOver(_, _)
SumOver(f, S) ==
    IF S = {} THEN 0
    ELSE LET x == CHOOSE y \in S : TRUE IN f[x] + SumOver(f, S \ {x})

TotalTried == SumOver([l \in Lanes |-> stats[l].tried], Lanes)
TotalSamples == SumOver([l \in Lanes |-> Len(stats[l].qsize)], Lanes)

\* ------------------------------------------------------------ producers
\* the enqueue of an admitted message: the record joins the lane, the depth
\* counter and the enqueue timestamp are recorded with it
Enqueue(p, l) ==
    /\ lanes' = [lanes EXCEPT ![l] = Append(@, [sn |-> nextSn[l], ts |-> now])]
    /\ nextSn' = [nextSn EXCEPT ![l] = @ + 1]
    /\ stats' = [stats EXCEPT ![l] = push_time(inc_q_cnt(@), nextSn[l], now)]
    /\ ppc' = [ppc EXCEPT ![p] = "idle"]
    /\ plane' = [plane EXCEPT ![p] = 0]

\* the producer gives up: Dropped under Drop, LinkUnusable under Block
GiveUp(p, l) ==
    /\ stats' = [stats EXCEPT ![l] = IF cc.kind = "Drop" THEN inc_dropped(@) ELSE @]
    /\ ppc' = [ppc EXCEPT ![p] = "idle"]
    /\ plane' = [plane EXCEPT ![p] = 0]
    /\ UNCHANGED <<lanes, nextSn>>

\* an admission attempt starts: it is counted in tried before anything else
Begin(p, l) ==
    /\ ppc[p] = "idle"
    /\ TotalTried < MaxTried
    /\ stats' = [stats EXCEPT ![l] = inc_tried(@)]
    /\ ppc' = [ppc EXCEPT ![p] = "counted"]
    /\ plane' = [plane EXCEPT ![p] = l]
    /\ reported' = None
    /\ UNCHANGED <<capacity, cc, lanes, nextSn, now, wscan, par>>

\* admit: Admitted when the lane has room; on Full the policy decides
TryAdmit(p) ==
    /\ ppc[p] = "counted"
    /\ LET l == plane[p] IN
        IF Len(lanes[l]) < capacity[l] THEN Enqueue(p, l)
        ELSE IF cc.wait = 0 THEN GiveUp(p, l)
        ELSE /\ ppc' = [ppc EXCEPT ![p] = "waiting"]
             /\ UNCHANGED <<lanes, nextSn, stats, plane>>
    /\ reported' = None
    /\ UNCHANGED <<capacity, cc, now, wscan, par>>

\* a slot was freed while the producer waited
AdmitAfterWait(p) ==
    /\ ppc[p] = "waiting"
    /\ Len(lanes[plane[p]]) < capacity[plane[p]]
    /\ Enqueue(p, plane[p])
    /\ reported' = None
    /\ UNCHANGED <<capacity, cc, now, wscan, par>>

\* the wait expired with the lane still full
Timeout(p) ==
    /\ ppc[p] = "waiting"
    /\ Len(lanes[plane[p]]) >= capacity[plane[p]]
    /\ GiveUp(p, plane[p])
    /\ reported' = None
    /\ UNCHANGED <<capacity, cc, now, wscan, par>>

\* ------------------------------------------------------------ scheduler
\* try_dequeue_highest, one lane inspection per step: the worker takes the
\* head of the lane it inspects when that lane is not empty
Dequeue(w) ==
    LET l == wscan[w] IN
    /\ lanes[l] # <<>>
    /\ lanes' = [lanes EXCEPT ![l] = Tail(@)]
    /\ stats' = [stats EXCEPT ![l] = push_q_delay(dec_q_cnt(@), now - Head(lanes[l]).ts)]
    /\ wscan' = [wscan EXCEPT ![w] = 1]
    /\ reported' = None
    /\ UNCHANGED <<capacity, cc, nextSn, now, ppc, plane, par>>

\* faulty variant: the worker moves on without looking at the lane
Pass_skipping(w) ==
    LET l == wscan[w] IN
    /\ l < Len(Classes)
    /\ wscan' = [wscan EXCEPT ![w] = l + 1]
    /\ reported' = None
    /\ UNCHANGED <<capacity, cc, lanes, nextSn, stats, now, ppc, plane, par>>
\* the inspected lane is empty: on to the next class, or None after the last
Pass(w) ==
    LET l == wscan[w] IN
    /\ lanes[l] = <<>>
    /\ wscan' = [wscan EXCEPT ![w] = IF l < Len(Classes) THEN l + 1 ELSE 1]
    /\ wscan'[w] # wscan[w]
    /\ reported' = None
    /\ UNCHANGED <<capacity, cc, lanes, nextSn, stats, now, ppc, plane, par>>

\* ----------------------------------------------------------- statistics
\* the periodic depth sample
SampleDepth(l) ==
    /\ TotalSamples < MaxHist
    /\ stats' = [stats EXCEPT ![l] = record_qsize(@)]
    /\ reported' = None
    /\ UNCHANGED <<capacity, cc, lanes, nextSn, now, ppc, plane, wscan, par>>

\* faulty variant: the report empties the queue-size history
Report_draining(l) ==
    /\ reported' = [some |-> TRUE, lane |-> l, rep |-> report(stats[l])]
    /\ stats' = [stats EXCEPT ![l].qsize = <<>>]
    /\ UNCHANGED <<capacity, cc, lanes, nextSn, now, ppc, plane, wscan, par>>
\* report(&self): the snapshot is returned, nothing is written
Report(l) ==
    /\ reported' = [some |-> TRUE, lane |-> l, rep |-> report(stats[l])]
    /\ UNCHANGED <<capacity, cc, lanes, nextSn, stats, now, ppc, plane, wscan, par>>

Tick ==
    /\ now < MaxTime
    /\ now' = now + 1
    /\ reported' = None
    /\ UNCHANGED <<capacity, cc, lanes, nextSn, stats, ppc, plane, wscan, par>>

Next ==
    \/ \E p \in Producers, l \in Lanes : Begin(p, l)
    \/ \E p \in Producers : TryAdmit(p)
    \/ \E p \in Producers : AdmitAfterWait(p)
    \/ \E p \in Producers : Timeout(p)
    \/ \E w \in Workers : Dequeue(w)
    \/ \E w \in Workers : Pass(w)
    \/ \E l \in Lanes : SampleDepth(l)
    \/ \E l \in Lanes : Report(l)
    \/ Tick

Spec == Init /\ [][Next]_vars

\* admission and scheduling alone, under every configuration
NextLanes ==
    \/ \E p \in Producers, l \in Lanes : Begin(p, l)
    \/ \E p \in Producers : TryAdmit(p)
    \/ \E p \in Producers : AdmitAfterWait(p)
    \/ \E p \in Producers : Timeout(p)
    \/ \E w \in Workers : Dequeue(w)
    \/ \E w \in Workers : Pass(w)
    \/ Tick

SpecLanes == Init /\ [][NextLanes]_vars

\* sampling and reporting under the default capacities, the clock standing
InitStats ==
    /\ Init
    /\ capacity = [l \in Lanes |-> Min(QueueSizeConf_default[Classes[l]], MaxCap)]

NextStats ==
    \/ \E p \in Producers, l \in Lanes : Begin(p, l)
    \/ \E p \in Producers : TryAdmit(p)
    \/ \E p \in Producers : AdmitAfterWait(p)
    \/ \E p \in Producers : Timeout(p)
    \/ \E w \in Workers : Dequeue(w)
    \/ \E w \in Workers : Pass(w)
    \/ \E l \in Lanes : SampleDepth(l)
    \/ \E l \in Lanes : Report(l)

SpecStats == InitStats /\ [][NextStats]_vars

\* ------------------------------------------- Parameters::remove, applied
Strings(n) == UNION {[1..m -> Chars] : m \in 0..n}
Keys == {<<>>, <<"a">>, <<"b">>}

PipelineVars == <<capacity, cc, lanes, nextSn, stats, now, ppc, plane, wscan, reported>>

InitParams ==
    /\ capacity = [l \in Lanes |-> QueueSizeConf_MIN]
    /\ cc = [kind |-> "Drop", wait |-> 0]
    /\ lanes = [l \in Lanes |-> <<>>]
    /\ nextSn = [l \in Lanes |-> 0]
    /\ stats = [l \in Lanes |-> QueueStats_new]
    /\ now = 0
    /\ ppc = [p \in Producers |-> "idle"]
    /\ plane = [p \in Producers |-> 0]
    /\ wscan = [w \in Workers |-> 1]
    /\ reported = None
    /\ \E s \in Strings(MaxLen), k \in Keys :
           par = [s |-> s, k |-> k, done |-> FALSE, ret |-> None]

Remove ==
    /\ ~par.done
    /\ par' = [par EXCEPT !.done = TRUE, !.ret = remove(iter(par.s), par.k)]
    /\ UNCHANGED PipelineVars

NextParams == Remove

SpecParams == InitParams /\ [][NextParams]_vars

\* ================================================================ claims
Range(seq) == {seq[i] : i \in 1..Len(seq)}

Max(a, b) == IF a < b THEN b ELSE a

\* the producers in the middle of an admission attempt on lane l
InFlight(l) == {p \in Producers : ppc[p] # "idle" /\ plane[p] = l}

\* C1: a report taken while tried = 0 has drop_rate exactly 0, whatever the
\* queue-size history holds
C1_DropRateZeroWhenUntried ==
    reported.some =>
        (stats[reported.lane].tried = 0 => reported.rep.droprate = F(0))

\* C2: in every lane dropped <= tried; an attempt is counted in tried before
\* it waits, is admitted or is dropped, so the admitted, the dropped and the
\* pending attempts together never exceed tried
C2_DroppedLeTried ==
    \A l \in Lanes :
        /\ stats[l].dropped <= stats[l].tried
        /\ stats[l].dropped + nextSn[l] + Cardinality(InFlight(l)) <= stats[l].tried

C2_Witness ==
    \E l \in Lanes :
        /\ stats[l].dropped >= 1
        /\ \E p \in InFlight(l) : ppc[p] = "waiting"

\* C3: the timestamp mapping holds entries of resident messages only, so it
\* is never larger than the number of pending messages
C3_TimemapOnlyResident ==
    \A l \in Lanes :
        /\ {e[1] : e \in stats[l].timemap} \subseteq {m.sn : m \in Range(lanes[l])}
        /\ Cardinality(stats[l].timemap) <= Len(lanes[l])

\* C4: the depth of a lane, and its depth counter, never exceed the lane's
\* capacity, which lies in QueueSizeConf::MIN..=QueueSizeConf::MAX
C4_DepthWithinCapacity ==
    \A l \in Lanes :
        /\ capacity[l] \in QueueSizeConf_MIN..QueueSizeConf_MAX
        /\ Len(lanes[l]) <= capacity[l]
        /\ stats[l].queue_counter <= capacity[l]

C4_Witness ==
    \E l \in Lanes :
        /\ stats[l].queue_counter = capacity[l]
        /\ capacity[l] > QueueSizeConf_MIN
        /\ \E p \in InFlight(l) : ppc[p] = "waiting"

\* C5: under Drop without wait and with no dequeue, n finished attempts on a
\* lane of capacity c leave min(n, c) admitted and max(0, n - c) dropped, and
\* the report shows drop_rate = dropped / tried
C5_DropScenarioReport ==
    \A l \in Lanes :
        (/\ cc = [kind |-> "Drop", wait |-> 0]
         /\ stats[l].queueing_delay = <<>>
         /\ InFlight(l) = {})
        => LET n == stats[l].tried
               c == capacity[l]
           IN /\ Len(lanes[l]) = Min(n, c)
              /\ stats[l].dropped = Max(0, n - c)
              /\ (reported.some /\ reported.lane = l /\ n >= 1)
                   => reported.rep.droprate = Reduce(stats[l].dropped, n)

\* C6: after one admission and its dequeue d time units later the recorded
\* delay sample is d and the report shows avg_queueing_delay = d
C6_SingleDelayReported ==
    \A l \in Lanes :
        (/\ nextSn[l] = 1
         /\ lanes[l] = <<>>
         /\ Len(stats[l].queueing_delay) = 1)
        => LET d == stats[l].queueing_delay[1]
           IN /\ d \in 0..now
              /\ (reported.some /\ reported.lane = l)
                   => reported.rep.avg_qdelay = F(d)

\* C7: a report writes nothing: the step that returns it leaves the counters,
\* the histories, the timestamp mapping and the lanes as they were, and a
\* report that follows a report of the same lane equals it
C7_ReportMutatesNothing ==
    [][reported'.some =>
         /\ UNCHANGED <<capacity, cc, lanes, nextSn, stats, now, ppc, plane, wscan>>
         /\ reported'.rep = report(stats'[reported'.lane])
         /\ (reported.some /\ reported.lane = reported'.lane)
              => reported'.rep = reported.rep]_vars

C7_Witness ==
    /\ reported.some
    /\ stats[reported.lane].qsize # <<>>
    /\ stats[reported.lane].dropped > 0
    /\ stats[reported.lane].queueing_delay # <<>>

\* the numerator of avg_i over the denominator ALPHA_DEN^(i-1), where
\* avg_1 = s1 and avg_i = alpha * s_i + (1 - alpha) * avg_(i-1)
RECURSIVE Pow(_, _)
Pow(b, e) == IF e = 0 THEN 1 ELSE b * Pow(b, e - 1)

RECURSIVE AvgNum(_, _)
AvgNum(q, i) ==
    IF i = 1 THEN q[1]
    ELSE ALPHA_NUM * q[i] * Pow(ALPHA_DEN, i - 2)
         + (ALPHA_DEN - ALPHA_NUM) * AvgNum(q, i - 1)

Dequeued(l) == Len(lanes'[l]) < Len(lanes[l])

C10_RemoveOnlyKey ==
    par.done =>
        LET kvs == iter(par.s)
            KeyDiffers(x) == x[1] # par.k
            at == FindKey(kvs, par.k, 1)
        IN /\ par.ret.str = concat(SelectSeq(kvs, KeyDiffers))
           /\ par.ret.item = IF at = 0 THEN None ELSE Some(kvs[at][2])

====
